---- MODULE Spec2Model ----
(***************************************************************************)
(* A model of rate_limiter/core.py: the RateLimiter object, its asyncio   *)
(* lock, the tasks that call acquire, and the synchronous feedback calls. *)
(*                                                                         *)
(* Time is counted in units of 1/1920 second, so that every quantity the  *)
(* code computes with floats (half seconds, x/120 recency factors, the    *)
(* 1.5 backoff) is an integer here.                                        *)
(***************************************************************************)
EXTENDS Integers, Sequences, FiniteSets, TLC

(***************************************************************************)
(* Bounds of the model.                                                    *)
(***************************************************************************)
\* acquire bodies executed in one behaviour
MaxCalls == 4
\* seconds the clock ticks past its start while no task is asleep
MaxTime == 2
\* update_from_error calls in one behaviour
MaxHits == 3
\* feedback and statistics calls the host makes where they are recorded
MaxHostCalls == 2

(***************************************************************************)
(* Units and values.                                                       *)
(***************************************************************************)
\* one second; 1920 = 16 * 120 makes (now - hit) / 120 exact (core.py:336)
Sec == 16 * 120

\* time.time() when the limiter is constructed (the tests' mocked clock)
Epoch0 == 1000

\* Python's None, and a value that is set
None == <<>>

Some(v) == <<v>>

IsSet(o) == o # <<>>

Val(o) == o[1]

Min(a, b) == IF a <= b THEN a ELSE b

\* a max() that returns its second argument
Latest(a, b) == b

Max(a, b) == IF a >= b THEN a ELSE b

Tasks == {"t1", "t2"}

NoTask == "none"

\* the host has made no feedback or statistics call yet
NoCall == [op |-> "none", arg |-> <<>>, seq |-> 0]

STRICT == "strict"

BURST == "burst"

ADAPTIVE == "adaptive"

(***************************************************************************)
(* models.py is not among the sources: its four constants are taken from  *)
(* the specification (D, M, BACKOFF > 1, EXPIRY "e.g. 900s").  The        *)
(* multiplier is held in time units per excess request.                   *)
(***************************************************************************)
DEFAULT_ADAPTIVE_MULTIPLIER == Sec

MAX_ADAPTIVE_MULTIPLIER == 2 * Sec

\* ADAPTIVE_BACKOFF_FACTOR = 3/2
BackoffNum == 3

BackoffDen == 2

RATE_LIMIT_EXPIRY_SECONDS == 900

VARIABLES
    clock,                \* time.time()
    config,               \* RateLimitConfig (without dynamic_adjustments)
    dyn,                  \* config.dynamic_adjustments
    requests,             \* self.requests
    burst_requests,       \* self.burst_requests
    lock_holder,          \* self._lock: the task inside "async with"
    waiters,              \* self._lock: the FIFO of tasks waiting for it
    total_requests,
    total_wait_time,
    max_wait_time,
    rate_limit_hits,
    last_dynamic_update,
    last_rate_limit_hit,
    task,                 \* each task's position in acquire and its locals
    entered,              \* acquire bodies executed so far
    released,             \* the times at which acquire calls returned
    stats,                \* what the call just made returned, if anything
    last_call             \* the host's latest feedback or statistics call

vars == <<clock, config, dyn, requests, burst_requests, lock_holder, waiters,
          total_requests, total_wait_time, max_wait_time, rate_limit_hits,
          last_dynamic_update, last_rate_limit_hit, task, entered, released,
          stats, last_call>>

(***************************************************************************)
(* RateLimiter.__init__: the Burst defaults and the floor of burst_size.  *)
(* An unset burst_size / burst_window / cooldown_period is 0 (falsy).     *)
(***************************************************************************)
Construct(raw) ==
    IF raw.strategy = BURST
    THEN LET d == IF raw.burst_size = 0 \/ raw.burst_window = 0
                  THEN [raw EXCEPT !.burst_size = raw.max_requests * 2,
                                   !.burst_window = 10 * Sec]
                  ELSE raw
         IN  IF d.burst_size < d.max_requests
             THEN [d EXCEPT !.burst_size = d.max_requests]
             ELSE d
    ELSE raw

Cfg(s, m, w, bs, bw, cd) ==
    [strategy |-> s, max_requests |-> m, time_window |-> w * Sec,
     burst_size |-> bs, burst_window |-> bw * Sec, cooldown_period |-> cd * Sec]

\* the configurations the limiter is constructed with
RawConfigs ==
    { Cfg(STRICT, 1, 2, 0, 0, 0),
      Cfg(STRICT, 2, 2, 0, 0, 0),
      Cfg(BURST, 2, 3, 3, 1, 0),
      Cfg(BURST, 2, 3, 3, 1, 2),
      Cfg(BURST, 1, 1, 1, 3, 2) }

AdaptiveConfigs ==
    { Cfg(ADAPTIVE, 2, 2, 0, 0, 0) }

\* DynamicAdjustments() as constructed
InitialAdjustments ==
    [adaptive_multiplier |-> DEFAULT_ADAPTIVE_MULTIPLIER,
     retry_after |-> None, retry_after_timestamp |-> None,
     time_window |-> None, time_window_timestamp |-> None,
     max_requests |-> None, max_requests_timestamp |-> None,
     remaining |-> None, remaining_timestamp |-> None]

IdleTask ==
    [pc |-> "idle", now |-> 0, wait_time |-> 0, result |-> "none",
     key |-> None, pre_requests |-> <<>>, pre_burst |-> <<>>, pre_total |-> 0]

(***************************************************************************)
(* The pure parts of acquire.                                              *)
(***************************************************************************)
\* a cleanup that keeps the entry that is exactly one window old
KeepRecentInclusive(reqs, now, window) ==
    SelectSeq(reqs, LAMBDA r : now - r <= window)

\* _cleanup_old_requests: one list, one window
KeepRecent(reqs, now, window) ==
    SelectSeq(reqs, LAMBDA r : now - r < window)

CleanupRequests(cfg, reqs, now) ==
    KeepRecent(reqs, now, cfg.time_window)

CleanupBurst(cfg, burst, now) ==
    IF cfg.strategy = BURST
    THEN KeepRecent(burst, now, cfg.burst_window)
    ELSE burst

\* an expiry test that already fires at exactly RATE_LIMIT_EXPIRY_SECONDS
HitExpiredAtExpiry(hit, now) ==
    IsSet(hit) /\ now - Val(hit) >= RATE_LIMIT_EXPIRY_SECONDS * Sec

\* _check_rate_limit_expiry: does the hit tracking expire at now
HitExpired(hit, now) ==
    IsSet(hit) /\ now - Val(hit) > RATE_LIMIT_EXPIRY_SECONDS * Sec

ExpireHit(hit, now) ==
    IF HitExpired(hit, now) THEN None ELSE hit

ExpireMultiplier(cfg, d, hit, now) ==
    IF /\ HitExpired(hit, now)
       /\ cfg.strategy = ADAPTIVE
       /\ d.adaptive_multiplier > DEFAULT_ADAPTIVE_MULTIPLIER
    THEN [d EXCEPT !.adaptive_multiplier = DEFAULT_ADAPTIVE_MULTIPLIER]
    ELSE d

\* "self.last_rate_limit_hit and now - self.last_rate_limit_hit < n"
HitWithin(hit, now, seconds) ==
    IsSet(hit) /\ Val(hit) # 0 /\ now - Val(hit) < seconds * Sec

\* _should_wait with the Strict comparison off by one (> for >=)
ShouldWaitStrictlyMore(cfg, reqs, burst, hit, now) ==
    CASE cfg.strategy = STRICT ->
            Len(reqs) > cfg.max_requests
      [] cfg.strategy = BURST ->
            \/ Len(burst) >= cfg.burst_size
            \/ Len(reqs) >= cfg.max_requests
      [] OTHER -> Len(reqs) >= cfg.max_requests

\* _should_wait with the threshold 1.0 whether or not a hit is recent
ShouldWaitFullOnly(cfg, reqs, burst, hit, now) ==
    CASE cfg.strategy = BURST ->
            \/ Len(burst) >= cfg.burst_size
            \/ Len(reqs) >= cfg.max_requests
      [] OTHER -> Len(reqs) >= cfg.max_requests

\* _should_wait
ShouldWait(cfg, reqs, burst, hit, now) ==
    CASE cfg.strategy = STRICT ->
            Len(reqs) >= cfg.max_requests
      [] cfg.strategy = BURST ->
            \/ Len(burst) >= cfg.burst_size
            \/ Len(reqs) >= cfg.max_requests
      [] cfg.strategy = ADAPTIVE ->
            \* len >= max_requests * 0.9 (or * 1.0)
            IF HitWithin(hit, now, 60)
            THEN 10 * Len(reqs) >= 9 * cfg.max_requests
            ELSE Len(reqs) >= cfg.max_requests
      [] OTHER -> FALSE

\* _calculate_wait_time, the Adaptive branch after the retry-after check
AdaptiveWait(cfg, d, reqs, hit, now) ==
    LET excess   == Len(reqs) - cfg.max_requests
        min_wait == IF HitWithin(hit, now, 120)
                    THEN Max(0, Sec - ((now - Val(hit)) \div 120))
                    ELSE 0
    IN  Max(min_wait, excess * d.adaptive_multiplier)

\* _calculate_wait_time with a retry-after wait that does not shrink as the
\* directive ages
CalculateWaitTimeUndecayed(cfg, d, reqs, burst, hit, now) ==
    IF reqs = <<>> THEN 0
    ELSE CASE cfg.strategy = STRICT ->
                 Max(0, reqs[1] + cfg.time_window - now)
           [] cfg.strategy = BURST ->
                 IF Len(burst) >= cfg.burst_size
                 THEN IF cfg.cooldown_period # 0
                      THEN cfg.cooldown_period
                      ELSE Max(0, burst[1] + cfg.burst_window - now)
                 ELSE Max(0, reqs[1] + cfg.time_window - now)
           [] OTHER ->
                 IF /\ IsSet(d.retry_after)
                    /\ IsSet(d.retry_after_timestamp)
                    /\ now - Val(d.retry_after_timestamp) < 60 * Sec
                    /\ Val(d.retry_after) > 0
                 THEN Val(d.retry_after) * Sec
                 ELSE AdaptiveWait(cfg, d, reqs, hit, now)

\* _calculate_wait_time
CalculateWaitTime(cfg, d, reqs, burst, hit, now) ==
    IF reqs = <<>> THEN 0
    ELSE CASE cfg.strategy = STRICT ->
                 Max(0, reqs[1] + cfg.time_window - now)
           [] cfg.strategy = BURST ->
                 IF Len(burst) >= cfg.burst_size
                 THEN IF cfg.cooldown_period # 0
                      THEN cfg.cooldown_period
                      ELSE Max(0, burst[1] + cfg.burst_window - now)
                 ELSE Max(0, reqs[1] + cfg.time_window - now)
           [] cfg.strategy = ADAPTIVE ->
                 LET adjusted ==
                        Val(d.retry_after) * Sec
                            - (now - Val(d.retry_after_timestamp))
                 IN  IF /\ IsSet(d.retry_after)
                        /\ IsSet(d.retry_after_timestamp)
                        /\ now - Val(d.retry_after_timestamp) < 60 * Sec
                        /\ adjusted > 0
                     THEN adjusted
                     ELSE AdaptiveWait(cfg, d, reqs, hit, now)
           [] OTHER -> 0

\* a record that appends the timestamp twice
RecordRequestsTwice(reqs, now) == Append(Append(reqs, now), now)

\* _record_request
RecordRequests(reqs, now) == Append(reqs, now)

RecordBurst(cfg, burst, now) ==
    IF cfg.strategy = BURST THEN Append(burst, now) ELSE burst

(***************************************************************************)
(* asyncio.Lock: release wakes the first waiter, which then owns the lock *)
(* (a later caller queues behind the waiters even while it is unlocked).  *)
(***************************************************************************)
ReleaseHolder == IF waiters = <<>> THEN NoTask ELSE Head(waiters)

ReleaseWaiters == IF waiters = <<>> THEN <<>> ELSE Tail(waiters)

ReleasePc(tk) ==
    IF waiters = <<>> THEN tk
    ELSE [tk EXCEPT ![Head(waiters)].pc = "granted"]

(***************************************************************************)
(* Header values are strings: sequences of characters.  int() and the     *)
(* HEADER_VALUE_PATTERN search are computed on them.                      *)
(***************************************************************************)
DigitChars == {"0", "1", "2", "3", "4", "5", "6", "7", "8", "9"}

DigitValue(c) ==
    CASE c = "0" -> 0 [] c = "1" -> 1 [] c = "2" -> 2 [] c = "3" -> 3
      [] c = "4" -> 4 [] c = "5" -> 5 [] c = "6" -> 6 [] c = "7" -> 7
      [] c = "8" -> 8 [] c = "9" -> 9

RECURSIVE DigitsValue(_)
DigitsValue(s) ==
    IF s = <<>> THEN 0
    ELSE 10 * DigitsValue(SubSeq(s, 1, Len(s) - 1)) + DigitValue(s[Len(s)])

RECURSIVE StripLeft(_)
StripLeft(s) ==
    IF s # <<>> /\ s[1] = " " THEN StripLeft(Tail(s)) ELSE s

RECURSIVE StripRight(_)
StripRight(s) ==
    IF s # <<>> /\ s[Len(s)] = " "
    THEN StripRight(SubSeq(s, 1, Len(s) - 1))
    ELSE s

\* an int() that reads the digits a value starts with and ignores the rest
PyIntLeadingDigits(s) ==
    LET stop == {i \in 1..Len(s) : s[i] \notin DigitChars}
        last == IF stop = {} THEN Len(s)
                ELSE (CHOOSE i \in stop : \A j \in stop : i <= j) - 1
    IN  IF last = 0 THEN None ELSE Some(DigitsValue(SubSeq(s, 1, last)))

\* int(value): Some(n), or None for the ValueError the code swallows
PyInt(s) ==
    LET b      == StripRight(StripLeft(s))
        signed == b # <<>> /\ b[1] \in {"-", "+"}
        body   == IF signed THEN Tail(b) ELSE b
    IN  IF body # <<>> /\ \A i \in 1..Len(body) : body[i] \in DigitChars
        THEN IF signed /\ b[1] = "-"
             THEN Some(0 - DigitsValue(body))
             ELSE Some(DigitsValue(body))
        ELSE None

\* HEADER_VALUE_PATTERN.search(value): the first maximal run of digits
FirstDigits(s) ==
    LET at == {i \in 1..Len(s) : s[i] \in DigitChars}
    IN  IF at = {} THEN None
        ELSE LET a == CHOOSE i \in at : \A j \in at : i <= j
                 b == CHOOSE j \in a..Len(s) :
                         /\ \A k \in a..j : s[k] \in DigitChars
                         /\ j = Len(s) \/ s[j + 1] \notin DigitChars
             IN  Some(DigitsValue(SubSeq(s, a, b)))

\* k.lower() on the header names the model uses
Lower(k) ==
    CASE k = "Retry-After" -> "retry-after"
      [] k = "X-RateLimit-Limit" -> "x-ratelimit-limit"
      [] OTHER -> k

\* {k.lower(): v for k, v in headers.items()}
LowerKeys(h) ==
    [n \in {Lower(k) : k \in DOMAIN h} |->
        h[CHOOSE k \in DOMAIN h : Lower(k) = n]]

RATE_LIMIT_HEADERS ==
    << "x-rate-limit-reset", "x-rate-limit-remaining", "x-rate-limit-limit",
       "x-rate-limit-seconds", "x-ratelimit-reset", "x-ratelimit-remaining",
       "x-ratelimit-limit", "x-ratelimit-reset", "x-rate-limit-reset",
       "x-amzn-ratelimit-limit", "retry-after" >>

\* 'reset' in header / 'limit' in header / 'remaining' in header
HasReset(n) == n \in {"x-rate-limit-reset", "x-ratelimit-reset"}

HasLimit(n) ==
    n \in {"x-rate-limit-reset", "x-rate-limit-remaining", "x-rate-limit-limit",
           "x-rate-limit-seconds", "x-ratelimit-reset", "x-ratelimit-remaining",
           "x-ratelimit-limit", "x-amzn-ratelimit-limit"}

HasRemaining(n) == n \in {"x-rate-limit-remaining", "x-ratelimit-remaining"}

\* a loop turn that reads every reset value as seconds from now
ScanHeaderRelativeOnly(acc, n, h, now) ==
    IF n \notin DOMAIN h \/ ~IsSet(FirstDigits(h[n])) THEN acc
    ELSE LET value == Val(FirstDigits(h[n]))
         IN  IF HasReset(n)
             THEN [acc EXCEPT !.reset_time = Some(now + value * Sec)]
             ELSE IF HasLimit(n) /\ ~HasRemaining(n)
             THEN [acc EXCEPT !.limit = Some(value)]
             ELSE IF HasRemaining(n)
             THEN [acc EXCEPT !.remaining = Some(value)]
             ELSE acc

\* one turn of the loop over RATE_LIMIT_HEADERS (lines 210-227)
ScanHeader(acc, n, h, now) ==
    IF n \notin DOMAIN h \/ ~IsSet(FirstDigits(h[n])) THEN acc
    ELSE LET value == Val(FirstDigits(h[n]))
         IN  IF HasReset(n)
             THEN [acc EXCEPT !.reset_time =
                      IF value * Sec > now + 3600 * Sec
                      THEN Some(value * Sec)
                      ELSE Some(now + value * Sec)]
             ELSE IF HasLimit(n) /\ ~HasRemaining(n)
             THEN [acc EXCEPT !.limit = Some(value)]
             ELSE IF HasRemaining(n)
             THEN [acc EXCEPT !.remaining = Some(value)]
             ELSE acc

RECURSIVE ScanHeaders(_, _, _, _)
ScanHeaders(i, acc, h, now) ==
    IF i > Len(RATE_LIMIT_HEADERS) THEN acc
    ELSE ScanHeaders(i + 1, ScanHeader(acc, RATE_LIMIT_HEADERS[i], h, now), h, now)

\* new_multiplier without the min(..., MAX_ADAPTIVE_MULTIPLIER)
NewMultiplierUncapped(m) == (m * BackoffNum) \div BackoffDen

\* new_multiplier that adds a second where the code multiplies, still capped
NewMultiplierAdditive(m) == Min(m + Sec, MAX_ADAPTIVE_MULTIPLIER)

\* new_multiplier of update_from_error (line 152)
NewMultiplier(m) ==
    Min((m * BackoffNum) \div BackoffDen, MAX_ADAPTIVE_MULTIPLIER)

\* header processing that takes over the window of every reset time found,
\* also one that is not ahead of now
ProcessRateLimitHeadersUnguarded(raw, now, cfg, d, ldu) ==
    LET h       == LowerKeys(raw)
        retry   == IF "retry-after" \in DOMAIN h
                   THEN PyInt(h["retry-after"]) ELSE None
        found   == ScanHeaders(1, [reset_time |-> None, limit |-> None,
                                   remaining |-> None], h, now)
        until   == IF IsSet(found.reset_time)
                   THEN Max(0, Val(found.reset_time) - now) ELSE 0
        d1      == IF IsSet(retry)
                   THEN [d EXCEPT !.retry_after = retry,
                                  !.retry_after_timestamp = Some(now)]
                   ELSE d
        d2      == IF IsSet(found.reset_time)
                   THEN [d1 EXCEPT !.time_window = Some(until),
                                   !.time_window_timestamp = Some(now)]
                   ELSE d1
        d3      == IF IsSet(found.limit)
                   THEN [d2 EXCEPT !.max_requests = found.limit,
                                   !.max_requests_timestamp = Some(now)]
                   ELSE d2
        d4      == IF /\ IsSet(found.remaining)
                      /\ Val(found.remaining) <= 5
                      /\ until > 0
                   THEN [d3 EXCEPT !.remaining = found.remaining,
                                   !.remaining_timestamp = Some(now)]
                   ELSE d3
        c1      == IF IsSet(found.reset_time)
                   THEN [cfg EXCEPT !.time_window = until] ELSE cfg
        c2      == IF IsSet(found.limit)
                   THEN [c1 EXCEPT !.max_requests = Val(found.limit)]
                   ELSE c1
        updated == IsSet(retry) \/ IsSet(found.reset_time) \/ IsSet(found.limit)
    IN  [config |-> c2, dyn |-> d4,
         last_dynamic_update |-> IF updated THEN Some(now) ELSE ldu]

\* _process_rate_limit_headers: the limiter's state after it, as a record
ProcessRateLimitHeaders(raw, now, cfg, d, ldu) ==
    LET h       == LowerKeys(raw)
        retry   == IF "retry-after" \in DOMAIN h
                   THEN PyInt(h["retry-after"]) ELSE None
        found   == ScanHeaders(1, [reset_time |-> None, limit |-> None,
                                   remaining |-> None], h, now)
        until   == IF IsSet(found.reset_time)
                   THEN Max(0, Val(found.reset_time) - now) ELSE 0
        d1      == IF IsSet(retry)
                   THEN [d EXCEPT !.retry_after = retry,
                                  !.retry_after_timestamp = Some(now)]
                   ELSE d
        d2      == IF until > 0
                   THEN [d1 EXCEPT !.time_window = Some(until),
                                   !.time_window_timestamp = Some(now)]
                   ELSE d1
        d3      == IF IsSet(found.limit)
                   THEN [d2 EXCEPT !.max_requests = found.limit,
                                   !.max_requests_timestamp = Some(now)]
                   ELSE d2
        d4      == IF /\ IsSet(found.remaining)
                      /\ Val(found.remaining) <= 5
                      /\ until > 0
                   THEN [d3 EXCEPT !.remaining = found.remaining,
                                   !.remaining_timestamp = Some(now)]
                   ELSE d3
        c1      == IF until > 0 THEN [cfg EXCEPT !.time_window = until] ELSE cfg
        c2      == IF IsSet(found.limit)
                   THEN [c1 EXCEPT !.max_requests = Val(found.limit)]
                   ELSE c1
        updated == IsSet(retry) \/ until > 0 \/ IsSet(found.limit)
    IN  [config |-> c2, dyn |-> d4,
         last_dynamic_update |-> IF updated THEN Some(now) ELSE ldu]

\* what a response or an error carries: its headers, or only its text
NoHeaders == [n \in {} |-> <<>>]

HeaderInputs ==
    { NoHeaders,
      [n \in {"Retry-After"} |-> <<"2">>],
      [n \in {"retry-after"} |-> <<"s", "o", "o", "n">>] }

\* an error: its shape (which attribute holds the headers) and its content
ErrorInputs ==
    { [shape |-> "response", headers |-> [n \in {"Retry-After"} |-> <<"2">>],
       text |-> None],
      [shape |-> "headers", headers |-> NoHeaders, text |-> None],
      [shape |-> "text", headers |-> NoHeaders, text |-> None],
      [shape |-> "text", headers |-> NoHeaders, text |-> Some(<<"2">>)] }

\* header resolution that looks at error.response only (no elif branches)
ErrorHeadersResponseOnly(e) ==
    IF e.shape = "response" THEN LowerKeys(e.headers) ELSE NoHeaders

\* the headers update_from_error resolves (lines 157-173); text is the digits
\* after "retry after " in str(error).lower(), if that pattern occurs
ErrorHeaders(e) ==
    IF e.shape \in {"response", "headers"} THEN LowerKeys(e.headers)
    ELSE IF IsSet(e.text) THEN [n \in {"retry-after"} |-> Val(e.text)]
    ELSE NoHeaders

(***************************************************************************)
(* The host's side: the feedback and statistics calls it makes are        *)
(* recorded (numbered, with their argument) by the specification that     *)
(* follows them; the limiter's handlers do not write the record.          *)
(***************************************************************************)
\* a step in which the host makes no recorded call: nothing is returned
HostIdle == stats' = None /\ UNCHANGED last_call

\* the host makes its next recorded call: op, with the argument arg; the
\* feedback calls and the reset return nothing
HostCalls(op, arg) ==
    /\ last_call.seq < MaxHostCalls
    /\ last_call' = [op |-> op, arg |-> arg, seq |-> last_call.seq + 1]
    /\ IF op \in {"get_stats", "_should_wait"} THEN TRUE ELSE stats' = None

InitWith(raws) ==
    /\ clock = Epoch0 * Sec
    /\ config \in {Construct(raw) : raw \in raws}
    /\ dyn = InitialAdjustments
    /\ requests = <<>>
    /\ burst_requests = <<>>
    /\ lock_holder = NoTask
    /\ waiters = <<>>
    /\ total_requests = 0
    /\ total_wait_time = 0
    /\ max_wait_time = 0
    /\ rate_limit_hits = 0
    /\ last_dynamic_update = None
    /\ last_rate_limit_hit = None
    /\ task = [t \in Tasks |-> IdleTask]
    /\ entered = 0
    /\ released = <<>>
    /\ stats = None
    /\ last_call = NoCall

Init == InitWith(RawConfigs)

InitAdaptive == InitWith(AdaptiveConfigs)

(***************************************************************************)
(* acquire, lines 77-92, run by task t once it owns the lock: up to the   *)
(* return when there is nothing to wait for, up to the sleep otherwise.   *)
(***************************************************************************)
Body(t) ==
    LET now   == clock
        reqs  == CleanupRequests(config, requests, now)
        burst == CleanupBurst(config, burst_requests, now)
        hit   == ExpireHit(last_rate_limit_hit, now)
        d     == ExpireMultiplier(config, dyn, last_rate_limit_hit, now)
        wait  == IF ShouldWait(config, reqs, burst, hit, now)
                 THEN CalculateWaitTime(config, d, reqs, burst, hit, now)
                 ELSE 0
        snap  == [task[t] EXCEPT !.now = now, !.wait_time = wait, !.key = None,
                                 !.pre_requests = requests,
                                 !.pre_burst = burst_requests,
                                 !.pre_total = total_requests]
    IN  /\ entered' = entered + 1
        /\ last_rate_limit_hit' = hit
        /\ dyn' = d
        /\ IF wait > 0
           THEN /\ total_wait_time' = total_wait_time + wait
                /\ max_wait_time' = Max(max_wait_time, wait)
                /\ requests' = reqs
                /\ burst_requests' = burst
                /\ lock_holder' = t
                /\ task' = [task EXCEPT ![t] = [snap EXCEPT !.pc = "sleeping"]]
                /\ UNCHANGED <<waiters, total_requests, released>>
           ELSE /\ requests' = RecordRequests(reqs, now)
                /\ burst_requests' = RecordBurst(config, burst, now)
                /\ total_requests' = total_requests + 1
                /\ lock_holder' = ReleaseHolder
                /\ waiters' = ReleaseWaiters
                /\ task' = ReleasePc([task EXCEPT ![t] =
                               IdleTask])
                /\ released' = Append(released, clock)
                /\ UNCHANGED <<total_wait_time, max_wait_time>>
        /\ UNCHANGED <<clock, config, rate_limit_hits, last_dynamic_update,
                       stats, last_call>>

\* the calls in progress that have not run the body yet
Pending == Cardinality({t \in Tasks : task[t].pc \in {"queued", "granted"}})

\* acquire() called by an idle task: "async with self._lock" takes a free
\* lock without suspending and the body runs at once; otherwise it queues
Acquire(t) ==
    /\ task[t].pc = "idle"
    /\ entered + Pending < MaxCalls
    /\ IF lock_holder = NoTask
       THEN Body(t)
       ELSE /\ waiters' = Append(waiters, t)
            /\ task' = [task EXCEPT ![t] = [IdleTask EXCEPT !.pc = "queued"]]
            /\ UNCHANGED <<clock, config, dyn, requests, burst_requests,
                           lock_holder, total_requests, total_wait_time,
                           max_wait_time, rate_limit_hits, last_dynamic_update,
                           last_rate_limit_hit, entered, released, stats,
                           last_call>>

\* a waiter that was handed the lock resumes and runs the body
Resume(t) ==
    /\ task[t].pc = "granted"
    /\ lock_holder = t
    /\ Body(t)

\* a wake-up that records the request and returns without releasing the lock
WakeKeepsLock(t) ==
    /\ HostIdle
    /\ task[t].pc = "sleeping"
    /\ clock >= task[t].now + task[t].wait_time
    /\ requests' = RecordRequests(CleanupRequests(config, requests, clock),
                                  task[t].now)
    /\ burst_requests' = RecordBurst(config,
                                     CleanupBurst(config, burst_requests, clock),
                                     task[t].now)
    /\ total_requests' = total_requests + 1
    /\ task' = [task EXCEPT ![t] = IdleTask]
    /\ released' = Append(released, clock)
    /\ UNCHANGED <<clock, config, dyn, total_wait_time, max_wait_time,
                   rate_limit_hits, last_dynamic_update, last_rate_limit_hit,
                   entered, lock_holder, waiters>>

\* asyncio.sleep(wait_time) is over: lines 90-92, then the lock is released
Wake(t) ==
    /\ HostIdle
    /\ task[t].pc = "sleeping"
    /\ clock >= task[t].now + task[t].wait_time
    /\ requests' = RecordRequests(CleanupRequests(config, requests, clock),
                                  task[t].now)
    /\ burst_requests' = RecordBurst(config,
                                     CleanupBurst(config, burst_requests, clock),
                                     task[t].now)
    /\ total_requests' = total_requests + 1
    /\ lock_holder' = ReleaseHolder
    /\ waiters' = ReleaseWaiters
    /\ task' = ReleasePc([task EXCEPT ![t] =
                              IdleTask])
    /\ released' = Append(released, clock)
    /\ UNCHANGED <<clock, config, dyn, total_wait_time, max_wait_time,
                   rate_limit_hits, last_dynamic_update, last_rate_limit_hit,
                   entered>>

\* time passes: one second
Tick ==
    /\ HostIdle
    /\ \/ clock < (Epoch0 + MaxTime) * Sec
       \/ \E t \in Tasks : /\ task[t].pc = "sleeping"
                           /\ clock < task[t].now + task[t].wait_time
    /\ clock' = clock + Sec
    /\ UNCHANGED <<config, dyn, requests, burst_requests, lock_holder, waiters,
                   total_requests, total_wait_time, max_wait_time,
                   rate_limit_hits, last_dynamic_update, last_rate_limit_hit,
                   task, entered, released>>

\* a cancellation that leaves the lock with the cancelled task
CancelKeepsLock(t) ==
    /\ HostIdle
    /\ task[t].pc \in {"sleeping", "granted", "queued"}
    /\ waiters' = SelectSeq(waiters, LAMBDA w : w # t)
    /\ task' = [task EXCEPT ![t] =
                   IdleTask]
    /\ UNCHANGED <<clock, config, dyn, requests, burst_requests, lock_holder,
                   total_requests, total_wait_time, max_wait_time,
                   rate_limit_hits, last_dynamic_update, last_rate_limit_hit,
                   entered, released>>

\* the task suspended in acquire is cancelled by its host: CancelledError
\* leaves "async with" (the lock is released) or the lock's waiting list
Cancel(t) ==
    /\ HostIdle
    /\ task[t].pc \in {"sleeping", "granted", "queued"}
    /\ IF task[t].pc = "queued"
       THEN /\ waiters' = SelectSeq(waiters, LAMBDA w : w # t)
            /\ task' = [task EXCEPT ![t] =
                           IdleTask]
            /\ UNCHANGED lock_holder
       ELSE /\ lock_holder' = ReleaseHolder
            /\ waiters' = ReleaseWaiters
            /\ task' = ReleasePc([task EXCEPT ![t] =
                   IdleTask])
    /\ UNCHANGED <<clock, config, dyn, requests, burst_requests,
                   total_requests, total_wait_time, max_wait_time,
                   rate_limit_hits, last_dynamic_update, last_rate_limit_hit,
                   entered, released>>

Keys == {"key1", "key2"}

\* acquire(key), as tests/test_core.py calls it: acquire(self) takes no key,
\* so Python raises TypeError at the call and no coroutine runs
AcquireKeyed(t, k) ==
    /\ HostIdle
    /\ task[t].pc = "idle"
    /\ task' = [task EXCEPT ![t] =
                   [IdleTask EXCEPT !.result = "TypeError", !.key = Some(k)]]
    /\ UNCHANGED <<clock, config, dyn, requests, burst_requests, lock_holder,
                   waiters, total_requests, total_wait_time, max_wait_time,
                   rate_limit_hits, last_dynamic_update, last_rate_limit_hit,
                   entered, released>>

\* an update_from_response that never stamps last_dynamic_update
UpdateFromResponseNeverStamps(h) ==
    /\ IF config.strategy # ADAPTIVE
       THEN UNCHANGED <<config, dyn, last_dynamic_update>>
       ELSE LET r == ProcessRateLimitHeaders(LowerKeys(h), clock, config, dyn,
                                             last_dynamic_update)
            IN  /\ config' = r.config
                /\ dyn' = r.dyn
                /\ UNCHANGED last_dynamic_update
    /\ UNCHANGED <<clock, requests, burst_requests, lock_holder, waiters,
                   total_requests, total_wait_time, max_wait_time,
                   rate_limit_hits, last_rate_limit_hit, task, entered,
                   released>>

\* an update_from_response that stamps last_dynamic_update at every call
UpdateFromResponseAlwaysStamps(h) ==
    /\ IF config.strategy # ADAPTIVE
       THEN UNCHANGED <<config, dyn, last_dynamic_update>>
       ELSE LET r == ProcessRateLimitHeaders(LowerKeys(h), clock, config, dyn,
                                             last_dynamic_update)
            IN  /\ config' = r.config
                /\ dyn' = r.dyn
                /\ last_dynamic_update' = Some(clock)
    /\ UNCHANGED <<clock, requests, burst_requests, lock_holder, waiters,
                   total_requests, total_wait_time, max_wait_time,
                   rate_limit_hits, last_rate_limit_hit, task, entered,
                   released>>

\* update_from_response: synchronous, takes no lock
UpdateFromResponse(h) ==
    /\ IF config.strategy # ADAPTIVE
       THEN UNCHANGED <<config, dyn, last_dynamic_update>>
       ELSE LET r == ProcessRateLimitHeaders(LowerKeys(h), clock, config, dyn,
                                             last_dynamic_update)
            IN  /\ config' = r.config
                /\ dyn' = r.dyn
                /\ last_dynamic_update' = r.last_dynamic_update
    /\ UNCHANGED <<clock, requests, burst_requests, lock_holder, waiters,
                   total_requests, total_wait_time, max_wait_time,
                   rate_limit_hits, last_rate_limit_hit, task, entered,
                   released>>

\* update_from_error without the strategy check of lines 142-143
UpdateFromErrorAnyStrategy(e) ==
    /\ rate_limit_hits < MaxHits
    /\ LET grown == [dyn EXCEPT !.adaptive_multiplier =
                                    NewMultiplier(dyn.adaptive_multiplier)]
           r == ProcessRateLimitHeaders(ErrorHeaders(e), clock, config,
                                        grown, last_dynamic_update)
       IN  /\ rate_limit_hits' = rate_limit_hits + 1
           /\ last_rate_limit_hit' = Some(clock)
           /\ config' = r.config
           /\ dyn' = r.dyn
           /\ last_dynamic_update' = r.last_dynamic_update
    /\ UNCHANGED <<clock, requests, burst_requests, lock_holder, waiters,
                   total_requests, total_wait_time, max_wait_time, task,
                   entered, released>>

\* update_from_error: synchronous, takes no lock
UpdateFromError(e) ==
    /\ rate_limit_hits < MaxHits
    /\ IF config.strategy # ADAPTIVE
       THEN UNCHANGED <<config, dyn, last_dynamic_update, rate_limit_hits,
                        last_rate_limit_hit>>
       ELSE LET grown == [dyn EXCEPT !.adaptive_multiplier =
                                        NewMultiplier(dyn.adaptive_multiplier)]
                r == ProcessRateLimitHeaders(ErrorHeaders(e), clock, config,
                                             grown, last_dynamic_update)
            IN  /\ rate_limit_hits' = rate_limit_hits + 1
                /\ last_rate_limit_hit' = Some(clock)
                /\ config' = r.config
                /\ dyn' = r.dyn
                /\ last_dynamic_update' = r.last_dynamic_update
    /\ UNCHANGED <<clock, requests, burst_requests, lock_holder, waiters,
                   total_requests, total_wait_time, max_wait_time, task,
                   entered, released>>

\* a reset that also zeroes the hit counter
ResetClearsCounters ==
    /\ last_rate_limit_hit' = None
    /\ rate_limit_hits' = 0
    /\ dyn' = IF config.strategy = ADAPTIVE
              THEN [dyn EXCEPT !.adaptive_multiplier = DEFAULT_ADAPTIVE_MULTIPLIER]
              ELSE dyn
    /\ UNCHANGED <<clock, config, requests, burst_requests, lock_holder,
                   waiters, total_requests, total_wait_time, max_wait_time,
                   last_dynamic_update, task, entered, released>>

\* reset_rate_limit_tracking
ResetRateLimitTracking ==
    /\ last_rate_limit_hit' = None
    /\ dyn' = IF /\ config.strategy = ADAPTIVE
                 /\ dyn.adaptive_multiplier # DEFAULT_ADAPTIVE_MULTIPLIER
              THEN [dyn EXCEPT !.adaptive_multiplier = DEFAULT_ADAPTIVE_MULTIPLIER]
              ELSE dyn
    /\ UNCHANGED <<clock, config, requests, burst_requests, lock_holder,
                   waiters, total_requests, total_wait_time, max_wait_time,
                   rate_limit_hits, last_dynamic_update, task, entered,
                   released>>

\* DynamicAdjustments.model_dump(exclude_none=True)
ModelDump(d) ==
    [f \in {g \in DOMAIN d : g = "adaptive_multiplier" \/ IsSet(d[g])} |->
        IF f = "adaptive_multiplier" THEN d[f] ELSE Val(d[f])]

\* the dict get_stats builds (lines 371-394) at the time now; current_rate is
\* recent_requests / (time_window / 60), kept as <<dividend, divisor>>
GetStatsResult(now) ==
    LET window_start    == now - config.time_window
        recent_requests == Len(SelectSeq(requests, LAMBDA r : r > window_start))
    IN  [total_requests      |-> total_requests,
         total_wait_time     |-> total_wait_time,
         max_wait_time       |-> max_wait_time,
         current_rate        |-> <<recent_requests * 60 * Sec,
                                   config.time_window>>,
         current_queue_size  |-> Len(requests),
         rate_limit_hits     |-> rate_limit_hits,
         last_dynamic_update |-> last_dynamic_update,
         dynamic_adjustments |-> IF IsSet(last_dynamic_update)
                                 THEN Some(ModelDump(dyn)) ELSE None,
         last_rate_limit_hit |-> last_rate_limit_hit,
         time_since_last_rate_limit |->
             IF IsSet(last_rate_limit_hit)
             THEN Some(now - Val(last_rate_limit_hit)) ELSE None,
         rate_limit_expiry_in |->
             IF IsSet(last_rate_limit_hit)
             THEN Some(Max(0, RATE_LIMIT_EXPIRY_SECONDS * Sec
                                  - (now - Val(last_rate_limit_hit))))
             ELSE None]

\* a get_stats that also drops the requests it finds outside the window
GetStatsPrunes ==
    /\ stats' = Some(GetStatsResult(clock))
    /\ requests' = SelectSeq(requests,
                             LAMBDA r : r > clock - config.time_window)
    /\ UNCHANGED <<clock, config, dyn, burst_requests, lock_holder,
                   waiters, total_requests, total_wait_time, max_wait_time,
                   rate_limit_hits, last_dynamic_update, last_rate_limit_hit,
                   task, entered, released>>

\* get_stats: synchronous, takes no lock; the host receives the statistics
GetStats ==
    /\ stats' = Some(GetStatsResult(clock))
    /\ UNCHANGED <<clock, config, dyn, requests, burst_requests, lock_holder,
                   waiters, total_requests, total_wait_time, max_wait_time,
                   rate_limit_hits, last_dynamic_update, last_rate_limit_hit,
                   task, entered, released>>

\* a quiet period after a hit: RATE_LIMIT_EXPIRY_SECONDS, or a second more,
\* pass at once
LongIdle ==
    /\ HostIdle
    /\ clock < (Epoch0 + MaxTime) * Sec
    /\ IsSet(last_rate_limit_hit)
    /\ \A t \in Tasks : task[t].pc = "idle"
    /\ \E quiet \in {RATE_LIMIT_EXPIRY_SECONDS, RATE_LIMIT_EXPIRY_SECONDS + 1} :
           clock' = clock + quiet * Sec
    /\ UNCHANGED <<config, dyn, requests, burst_requests, lock_holder, waiters,
                   total_requests, total_wait_time, max_wait_time,
                   rate_limit_hits, last_dynamic_update, last_rate_limit_hit,
                   task, entered, released>>

\* one step of some task's acquire call
AcquireStep ==
    \E t \in Tasks : Acquire(t) \/ Resume(t) \/ Wake(t) \/ Cancel(t)

\* one step of the acquire call of a task that is the limiter's only caller
\* (it never finds the lock taken)
SoloStep(t) == Acquire(t) \/ Wake(t) \/ Cancel(t)

\* a feedback call or a manual reset
FeedbackStep ==
    \/ \E h \in HeaderInputs : UpdateFromResponse(h) /\ HostIdle
    \/ \E e \in ErrorInputs : UpdateFromError(e) /\ HostIdle
    \/ ResetRateLimitTracking /\ HostIdle

\* Strict and Burst limiters
Next ==
    \/ AcquireStep
    \/ \E t \in Tasks, k \in Keys : AcquireKeyed(t, k)
    \/ Tick

Spec == Init /\ [][Next]_vars

\* Adaptive limiters, with their feedback
NextAdaptive ==
    \/ SoloStep("t1")
    \/ FeedbackStep
    \/ Tick
    \/ LongIdle

AdaptiveSpec == InitAdaptive /\ [][NextAdaptive]_vars

\* every strategy, two callers, and feedback that arrives while they wait
LiveConfigs ==
    { Cfg(STRICT, 1, 2, 0, 0, 0),
      Cfg(BURST, 2, 3, 3, 1, 2),
      Cfg(ADAPTIVE, 1, 2, 0, 0, 0) }

InitLive == InitWith(LiveConfigs)

LiveFeedback ==
    \/ /\ ~IsSet(last_dynamic_update)
       /\ UpdateFromResponse([n \in {"X-RateLimit-Limit"} |-> <<"0">>])
       /\ HostIdle
    \/ /\ rate_limit_hits = 0
       /\ UpdateFromError([shape |-> "headers",
                           headers |-> [n \in {"retry-after"} |-> <<"2">>],
                           text |-> None])
       /\ HostIdle
    \/ IsSet(last_rate_limit_hit) /\ ResetRateLimitTracking /\ HostIdle

NextLive ==
    \/ AcquireStep
    \/ LiveFeedback
    \/ Tick

\* time advances, the event loop resumes a task whose lock was granted or
\* whose sleep is over
Fairness ==
    /\ WF_vars(Tick)
    /\ \A t \in Tasks : WF_vars(Resume(t)) /\ WF_vars(Wake(t))

LiveSpec == InitLive /\ [][NextLive]_vars /\ Fairness

(***************************************************************************)
(* A limiter of any strategy under one caller and a host whose feedback   *)
(* and statistics calls are recorded, with well-formed, missing and       *)
(* malformed header data.                                                  *)
(***************************************************************************)
ApiConfigs ==
    { Cfg(STRICT, 1, 2, 0, 0, 0),
      Cfg(BURST, 2, 3, 3, 1, 2),
      Cfg(ADAPTIVE, 1, 2, 0, 0, 0) }

InitApi == InitWith(ApiConfigs)

\* headers in which no value is a number
MalformedHeaders ==
    [n \in {"retry-after", "x-ratelimit-limit", "x-ratelimit-reset"} |->
        CASE n = "retry-after" -> <<"s", "o", "o", "n">>
          [] n = "x-ratelimit-limit" -> <<"m", "a", "n", "y">>
          [] OTHER -> <<"-">>]

\* a retry-after that is no integer beside a limit that is a number
HalfMalformedHeaders ==
    [n \in {"retry-after", "X-RateLimit-Limit"} |->
        IF n = "retry-after" THEN <<"2", ".", "5">> ELSE <<"2">>]

ApiHeaderInputs ==
    { NoHeaders,
      [n \in {"Retry-After"} |-> <<"2">>],
      MalformedHeaders,
      HalfMalformedHeaders }

\* an error that carries its headers itself, as the tests' rate_limit_error
RetryAfterError ==
    [shape |-> "headers", headers |-> [n \in {"retry-after"} |-> <<"2">>],
     text |-> None]

ApiErrorInputs ==
    { RetryAfterError,
      [shape |-> "response", headers |-> MalformedHeaders, text |-> None],
      [shape |-> "text", headers |-> NoHeaders, text |-> None] }

\* acquire calls that run to their end
NextApi ==
    \/ Acquire("t1")
    \/ Wake("t1")
    \/ Tick
    \/ \E h \in ApiHeaderInputs :
           UpdateFromResponse(h) /\ HostCalls("update_from_response", h)
    \/ \E e \in ApiErrorInputs :
           UpdateFromError(e) /\ HostCalls("update_from_error", e)
    \/ ResetRateLimitTracking /\ HostCalls("reset_rate_limit_tracking", <<>>)
    \/ GetStats /\ HostCalls("get_stats", <<>>)

ApiSpec == InitApi /\ [][NextApi]_vars

(***************************************************************************)
(* An Adaptive limiter whose window outlasts a retry-after directive: one *)
(* caller, responses that carry retry-after and arrive between its calls, *)
(* and a minute without calls.                                             *)
(***************************************************************************)
RetryConfigs ==
    { Cfg(ADAPTIVE, 1, 120, 0, 0, 0) }

InitRetry == InitWith(RetryConfigs)

RetryHeaderInputs ==
    { [n \in {"Retry-After"} |-> <<"2">>],
      [n \in {"retry-after"} |-> <<"6", "1">>] }

\* no call for 59 or for 60 seconds
ShortIdle ==
    /\ HostIdle
    /\ clock < (Epoch0 + MaxTime) * Sec
    /\ \A t \in Tasks : task[t].pc = "idle"
    /\ \E quiet \in {59, 60} : clock' = clock + quiet * Sec
    /\ UNCHANGED <<config, dyn, requests, burst_requests, lock_holder, waiters,
                   total_requests, total_wait_time, max_wait_time,
                   rate_limit_hits, last_dynamic_update, last_rate_limit_hit,
                   task, entered, released>>

NextRetry ==
    \/ Acquire("t1")
    \/ Wake("t1")
    \/ Tick
    \/ ShortIdle
    \/ /\ \A t \in Tasks : task[t].pc = "idle"
       /\ \E h \in RetryHeaderInputs : UpdateFromResponse(h) /\ HostIdle

RetrySpec == InitRetry /\ [][NextRetry]_vars

(***************************************************************************)
(* _should_wait on an Adaptive limiter in the states around its           *)
(* thresholds: a history of up to max_requests + 1 entries, no hit or a    *)
(* hit of an age around 60 seconds.                                        *)
(***************************************************************************)
DecideConfigs ==
    { Cfg(ADAPTIVE, 1, 300, 0, 0, 0),
      Cfg(ADAPTIVE, 10, 300, 0, 0, 0) }

\* how many requests the limiter has served, all of them just now
DecideLengths == {0, 1, 8, 9, 10, 11}

\* the age of the one hit the limiter has recorded, in clock units
DecideHitAges == {0, 60 * Sec - 1, 60 * Sec, 61 * Sec}

\* the limiter after n immediate acquire calls at the time now, without a
\* hit or with one update_from_error call (no headers) made age before now
InitDecide ==
    /\ clock = (Epoch0 + 100) * Sec
    /\ config \in {Construct(raw) : raw \in DecideConfigs}
    /\ \E n \in DecideLengths :
           /\ n <= config.max_requests + 1
           /\ requests = [i \in 1..n |-> clock]
           /\ released = [i \in 1..n |-> clock]
           /\ total_requests = n
           /\ entered = n
    /\ \/ /\ last_rate_limit_hit = None
          /\ rate_limit_hits = 0
          /\ dyn = InitialAdjustments
       \/ /\ \E age \in DecideHitAges : last_rate_limit_hit = Some(clock - age)
          /\ rate_limit_hits = 1
          /\ dyn = [InitialAdjustments EXCEPT !.adaptive_multiplier =
                        NewMultiplier(DEFAULT_ADAPTIVE_MULTIPLIER)]
    /\ burst_requests = <<>>
    /\ lock_holder = NoTask
    /\ waiters = <<>>
    /\ total_wait_time = 0
    /\ max_wait_time = 0
    /\ last_dynamic_update = None
    /\ task = [t \in Tasks |-> IdleTask]
    /\ stats = None
    /\ last_call = NoCall

\* _should_wait(now) called with the current time: the caller receives the
\* decision, nothing changes
ShouldWaitCall ==
    /\ stats' = Some(ShouldWait(config, requests, burst_requests,
                                last_rate_limit_hit, clock))
    /\ UNCHANGED <<clock, config, dyn, requests, burst_requests, lock_holder,
                   waiters, total_requests, total_wait_time, max_wait_time,
                   rate_limit_hits, last_dynamic_update, last_rate_limit_hit,
                   task, entered, released>>

\* a moment passes between two calls: one clock unit
Moment ==
    /\ HostIdle
    /\ clock < (Epoch0 + 100) * Sec + MaxTime
    /\ clock' = clock + 1
    /\ UNCHANGED <<config, dyn, requests, burst_requests, lock_holder, waiters,
                   total_requests, total_wait_time, max_wait_time,
                   rate_limit_hits, last_dynamic_update, last_rate_limit_hit,
                   task, entered, released>>

NextDecide ==
    \/ ShouldWaitCall /\ HostCalls("_should_wait", <<>>)
    \/ Moment

DecideSpec == InitDecide /\ [][NextDecide]_vars

(***************************************************************************)
(* An Adaptive limiter whose host passes on responses with reset, limit   *)
(* and remaining headers (and errors without headers) between the calls   *)
(* of its one caller.                                                      *)
(***************************************************************************)
HeaderConfigs ==
    { Cfg(ADAPTIVE, 1, 2, 0, 0, 0) }

InitHeader == InitWith(HeaderConfigs)

\* headers with a reset value: now, an epoch that has passed, and an epoch
\* about an hour ahead
ResetHeaders ==
    { [n \in {"x-ratelimit-reset"} |-> v] :
          v \in { <<"0">>, <<"9", "9", "9">>, <<"4", "6", "0", "1">> } }

\* headers with a remaining value, alone or beside a reset value
RemainingHeaders ==
    { [n \in {"x-ratelimit-remaining"} |-> <<"3">>],
      [n \in {"x-ratelimit-remaining", "x-ratelimit-reset"} |->
          IF n = "x-ratelimit-reset" THEN <<"0">> ELSE <<"3">>],
      [n \in {"x-ratelimit-remaining", "x-ratelimit-reset"} |->
          IF n = "x-ratelimit-reset" THEN <<"2">> ELSE <<"3">>],
      [n \in {"x-ratelimit-remaining", "x-ratelimit-reset"} |->
          IF n = "x-ratelimit-reset" THEN <<"2">> ELSE <<"6">>] }

\* headers with a limit or a retry-after value
LimitHeaders ==
    { [n \in {"x-ratelimit-limit"} |-> <<"0">>],
      [n \in {"retry-after"} |-> <<"2">>] }

ResponseHeaderInputs ==
    {NoHeaders} \cup ResetHeaders \cup RemainingHeaders \cup LimitHeaders

\* an error that carries no header and no "retry after" text
BareError == [shape |-> "text", headers |-> NoHeaders, text |-> None]

NextHeader ==
    \/ Acquire("t1")
    \/ Wake("t1")
    \/ Tick
    \/ /\ \A t \in Tasks : task[t].pc = "idle"
       /\ \E h \in ResponseHeaderInputs :
              UpdateFromResponse(h) /\ HostCalls("update_from_response", h)
    \/ /\ \A t \in Tasks : task[t].pc = "idle"
       /\ UpdateFromError(BareError)
       /\ HostCalls("update_from_error", BareError)
    \/ /\ \A t \in Tasks : task[t].pc = "idle"
       /\ GetStats
       /\ HostCalls("get_stats", <<>>)

HeaderSpec == InitHeader /\ [][NextHeader]_vars

(***************************************************************************)
(* The construction of a limiter from the configuration its host          *)
(* supplies, with burst_size and burst_window given or left unset (0),    *)
(* followed by the calls of one caller.                                    *)
(***************************************************************************)
SuppliedConfigs ==
    { Cfg(STRICT, 1, 2, 0, 0, 0),
      Cfg(BURST, 2, 3, 0, 0, 0),
      Cfg(BURST, 2, 3, 5, 1, 0),
      Cfg(BURST, 2, 3, 1, 1, 0),
      Cfg(BURST, 2, 3, 2, 1, 2),
      Cfg(BURST, 2, 3, 5, 0, 0),
      Cfg(BURST, 2, 3, 0, 1, 0) }

\* the configuration object exists, RateLimiter(config) has not run yet
InitSupplied ==
    /\ clock = Epoch0 * Sec
    /\ config \in SuppliedConfigs
    /\ dyn = InitialAdjustments
    /\ requests = <<>>
    /\ burst_requests = <<>>
    /\ lock_holder = NoTask
    /\ waiters = <<>>
    /\ total_requests = 0
    /\ total_wait_time = 0
    /\ max_wait_time = 0
    /\ rate_limit_hits = 0
    /\ last_dynamic_update = None
    /\ last_rate_limit_hit = None
    /\ task = [t \in Tasks |-> IdleTask]
    /\ entered = 0
    /\ released = <<>>
    /\ stats = None
    /\ last_call = NoCall

\* RateLimiter(config): __init__ adjusts the configuration object in place
NewLimiter ==
    /\ config' = Construct(config)
    /\ UNCHANGED <<clock, dyn, requests, burst_requests, lock_holder, waiters,
                   total_requests, total_wait_time, max_wait_time,
                   rate_limit_hits, last_dynamic_update, last_rate_limit_hit,
                   task, entered, released>>

\* the limiter exists
Constructed == last_call.seq > 0

NextConstruct ==
    \/ ~Constructed /\ NewLimiter /\ HostCalls("__init__", config)
    \/ Constructed /\ Acquire("t1")
    \/ Constructed /\ Wake("t1")
    \/ Constructed /\ Tick
    \/ /\ Constructed
       /\ UpdateFromResponse([n \in {"x-ratelimit-limit"} |-> <<"9">>])
       /\ HostCalls("update_from_response",
                    [n \in {"x-ratelimit-limit"} |-> <<"9">>])

ConstructSpec == InitSupplied /\ [][NextConstruct]_vars

(***************************************************************************)
(* Two callers of a Burst limiter whose cooldown outlasts its windows: a  *)
(* caller that arrives during the cooldown of another finds the windows   *)
(* empty again.                                                            *)
(***************************************************************************)
OrderConfigs ==
    { Cfg(BURST, 1, 1, 1, 1, 2),
      Cfg(STRICT, 1, 2, 0, 0, 0) }

InitOrder == InitWith(OrderConfigs)

NextOrder ==
    \/ AcquireStep
    \/ Tick

OrderSpec == InitOrder /\ [][NextOrder]_vars

(***************************************************************************)
(* What the claims speak of.                                               *)
(***************************************************************************)
\* the step is the body of an acquire call (lines 77-92, up to the sleep)
BodyRuns == entered' = entered + 1

\* the wait that body computed and added to total_wait_time (0: none)
Waited == total_wait_time' - total_wait_time

\* the entries of a history that lie inside the window at the time now
Inside(history, now, window) ==
    {i \in DOMAIN history : now - history[i] < window}

\* the oldest timestamp among the entries idx of a history
Oldest(history, idx) ==
    CHOOSE x \in {history[i] : i \in idx} :
        \A y \in {history[i] : i \in idx} : x <= y

StartsSleeping(t) == task[t].pc # "sleeping" /\ task'[t].pc = "sleeping"

(***************************************************************************)
(* C1.  Strict: an acquire that finds fewer than max_requests entries in  *)
(* the current window does not wait; one that finds max_requests entries  *)
(* waits history[0] + time_window - now, which is > 0, and                *)
(* total_wait_time becomes > 0.                                            *)
(***************************************************************************)
C1_StrictWait ==
    [][ (config.strategy = STRICT /\ BodyRuns) =>
          LET idx == Inside(requests, clock, config.time_window)
          IN  IF Cardinality(idx) < config.max_requests
              THEN /\ Waited = 0
                   /\ \A t \in Tasks : ~StartsSleeping(t)
                   /\ total_requests' = total_requests + 1
              ELSE /\ Waited = Oldest(requests, idx) + config.time_window - clock
                   /\ Waited > 0
                   /\ total_wait_time' > 0
                   /\ \E t \in Tasks : /\ StartsSleeping(t)
                                       /\ task'[t].wait_time = Waited
                                       /\ task'[t].now = clock ]_vars

\* a Strict acquire is asleep for a positive wait
C1_Witness ==
    /\ config.strategy = STRICT
    /\ \E t \in Tasks : task[t].pc = "sleeping" /\ task[t].wait_time > 0
    /\ Len(requests) = config.max_requests
    /\ total_requests >= config.max_requests

(***************************************************************************)
(* C2.  Strict: in any time interval shorter than time_window, at most    *)
(* max_requests acquire calls are released to their callers.              *)
(***************************************************************************)
C2_AtMostMaxReleasedPerWindow ==
    config.strategy = STRICT =>
        \A i \in DOMAIN released :
            Cardinality({j \in DOMAIN released :
                            /\ released[j] <= released[i]
                            /\ released[i] - released[j] < config.time_window})
                <= config.max_requests

(***************************************************************************)
(* C3.  Burst: on a fresh limiter the first burst_size acquire calls made *)
(* within burst_window seconds all return with zero wait.                 *)
(***************************************************************************)
C3_FirstBurstNeverWaits ==
    \A t \in Tasks :
        ( /\ config.strategy = BURST
          /\ entered <= config.burst_size
          /\ task[t].pc = "sleeping"
          /\ task[t].now < Epoch0 * Sec + config.burst_window )
        => task[t].wait_time = 0

(***************************************************************************)
(* C4.  Burst: with burst_size entries inside burst_window the next       *)
(* acquire waits cooldown_period if it is set, else                       *)
(* burst_history[0] + burst_window - now; with only the time_window limit *)
(* saturated it waits history[0] + time_window - now.                     *)
(***************************************************************************)
C4_BurstWait ==
    [][ (config.strategy = BURST /\ BodyRuns) =>
          LET b == Inside(burst_requests, clock, config.burst_window)
              r == Inside(requests, clock, config.time_window)
          IN  IF Cardinality(b) >= config.burst_size
              THEN Waited = IF config.cooldown_period # 0
                            THEN config.cooldown_period
                            ELSE Oldest(burst_requests, b)
                                     + config.burst_window - clock
              ELSE Cardinality(r) >= config.max_requests =>
                       Waited = Oldest(requests, r) + config.time_window - clock
      ]_vars

(***************************************************************************)
(* C5.  While a task is suspended in acquire for its wait the lock is     *)
(* released, so that another task's acquire can run meanwhile.            *)
(***************************************************************************)
C5_LockFreeWhileSleeping ==
    \A t \in Tasks : task[t].pc = "sleeping" => lock_holder # t

(***************************************************************************)
(* C6.  Every acquire call in progress eventually ends: it returns, or it *)
(* was cancelled by its host; under every strategy and feedback state.    *)
(***************************************************************************)
C6_AcquireEnds ==
    \A t \in Tasks :
        (task[t].pc \in {"queued", "granted", "sleeping"})
            ~> (task[t].pc = "idle")

\* one caller is asleep in acquire while the other waits for the lock
C6_Witness ==
    \E t, u \in Tasks : /\ task[t].pc = "sleeping"
                        /\ task[u].pc = "queued"
                        /\ rate_limit_hits > 0

(***************************************************************************)
(* C7.  An acquire cancelled during its wait records no request: history, *)
(* burst_history and total_requests are as they were before the call, and *)
(* the lock is released.                                                   *)
(***************************************************************************)
\* the step ends task t's wait without a return: its call was cancelled
CancelledWaiting(t) ==
    /\ task[t].pc = "sleeping"
    /\ task'[t].pc = "idle"
    /\ released' = released

C7_CancelLeavesStateAsBeforeCall ==
    [][ \A t \in Tasks :
          CancelledWaiting(t) =>
              /\ requests' = task[t].pre_requests
              /\ burst_requests' = task[t].pre_burst
              /\ total_requests' = task[t].pre_total
              /\ lock_holder' # t ]_vars

\* a history without the entries that had left the window at the time now
Unexpired(history, now, window) ==
    SelectSeq(history, LAMBDA e : ~(now - e >= window))

(***************************************************************************)
(* C7, amended.  An acquire cancelled during its wait records no request: *)
(* total_requests is as before the call, history and burst_history are    *)
(* the sequences of before the call less the entries the call's cleanup   *)
(* evicted as expired, and the lock is released.                          *)
(***************************************************************************)
C7_CancelRecordsNothing ==
    [][ \A t \in Tasks :
          CancelledWaiting(t) =>
              /\ requests' = Unexpired(task[t].pre_requests, task[t].now,
                                       config.time_window)
              /\ burst_requests' =
                    IF config.strategy = BURST
                    THEN Unexpired(task[t].pre_burst, task[t].now,
                                   config.burst_window)
                    ELSE task[t].pre_burst
              /\ total_requests' = task[t].pre_total
              /\ lock_holder' # t ]_vars

\* a call was cancelled during its wait, after other calls were recorded
C7_Witness ==
    /\ \A t \in Tasks : task[t].pc = "idle"
    /\ lock_holder = NoTask
    /\ total_requests > 0
    /\ total_wait_time > 0
    /\ total_requests < entered

(***************************************************************************)
(* C8.  acquire(key) is served and keeps a history per key, so that keys  *)
(* do not influence each other's waits.                                   *)
(***************************************************************************)
C8_KeyedAcquireIsServed ==
    \A t \in Tasks : IsSet(task[t].key) => task[t].result # "TypeError"

(***************************************************************************)
(* C9.  adaptive_multiplier lies in [DEFAULT_ADAPTIVE_MULTIPLIER,         *)
(* MAX_ADAPTIVE_MULTIPLIER] in every reachable state of an Adaptive       *)
(* limiter.                                                                *)
(***************************************************************************)
C9_MultiplierInRange ==
    /\ DEFAULT_ADAPTIVE_MULTIPLIER <= dyn.adaptive_multiplier
    /\ dyn.adaptive_multiplier <= MAX_ADAPTIVE_MULTIPLIER

\* the multiplier has grown to its maximum
C9_Witness ==
    /\ config.strategy = ADAPTIVE
    /\ rate_limit_hits = MaxHits
    /\ dyn.adaptive_multiplier = MAX_ADAPTIVE_MULTIPLIER
    /\ total_requests > 0

\* the step is an update_from_error call on an Adaptive limiter
ErrorIngested ==
    config.strategy = ADAPTIVE /\ rate_limit_hits' = rate_limit_hits + 1

(***************************************************************************)
(* C10.  Each update_from_error call on an Adaptive limiter sets the      *)
(* multiplier to min(old * BACKOFF, M), which is greater than the old.    *)
(***************************************************************************)
C10_ErrorStrictlyIncreases ==
    [][ ErrorIngested =>
          /\ dyn'.adaptive_multiplier * BackoffDen
                = Min(dyn.adaptive_multiplier * BackoffNum,
                      MAX_ADAPTIVE_MULTIPLIER * BackoffDen)
          /\ dyn'.adaptive_multiplier > dyn.adaptive_multiplier ]_vars

(***************************************************************************)
(* C10, amended.  Each update_from_error call on an Adaptive limiter sets *)
(* the multiplier to min(old * BACKOFF, M): greater than the old value    *)
(* while that is below M, and M again once it is M.                       *)
(***************************************************************************)
C10_ErrorIncreasesUpToMax ==
    [][ ErrorIngested =>
          /\ dyn'.adaptive_multiplier * BackoffDen
                = Min(dyn.adaptive_multiplier * BackoffNum,
                      MAX_ADAPTIVE_MULTIPLIER * BackoffDen)
          /\ dyn.adaptive_multiplier < MAX_ADAPTIVE_MULTIPLIER
                => dyn'.adaptive_multiplier > dyn.adaptive_multiplier
          /\ dyn.adaptive_multiplier = MAX_ADAPTIVE_MULTIPLIER
                => dyn'.adaptive_multiplier = MAX_ADAPTIVE_MULTIPLIER ]_vars

\* an error arrived while the multiplier was at its maximum
C10_Witness ==
    /\ config.strategy = ADAPTIVE
    /\ rate_limit_hits >= 3
    /\ dyn.adaptive_multiplier = MAX_ADAPTIVE_MULTIPLIER
    /\ last_rate_limit_hit = Some(clock)

(***************************************************************************)
(* C11.  Adaptive: an acquire that runs when now - last_rate_limit_hit >   *)
(* RATE_LIMIT_EXPIRY_SECONDS clears last_rate_limit_hit and leaves the     *)
(* multiplier at DEFAULT_ADAPTIVE_MULTIPLIER; an acquire that runs when    *)
(* now - last_rate_limit_hit <= RATE_LIMIT_EXPIRY_SECONDS (or with no hit  *)
(* on record) changes neither.                                             *)
(***************************************************************************)
C11_ExpiryResetsMultiplier ==
    [][ (config.strategy = ADAPTIVE /\ BodyRuns) =>
          IF /\ IsSet(last_rate_limit_hit)
             /\ clock - Val(last_rate_limit_hit)
                    > RATE_LIMIT_EXPIRY_SECONDS * Sec
          THEN /\ last_rate_limit_hit' = None
               /\ dyn'.adaptive_multiplier = DEFAULT_ADAPTIVE_MULTIPLIER
          ELSE /\ last_rate_limit_hit' = last_rate_limit_hit
               /\ dyn'.adaptive_multiplier = dyn.adaptive_multiplier ]_vars

\* after hits and a quiet period longer than the expiry, an acquire has run
\* (its request is recorded at the current time) and the tracking is cleared
C11_Witness ==
    /\ config.strategy = ADAPTIVE
    /\ rate_limit_hits >= 2
    /\ clock > (Epoch0 + RATE_LIMIT_EXPIRY_SECONDS) * Sec
    /\ requests # <<>> /\ requests[Len(requests)] = clock
    /\ last_rate_limit_hit = None
    /\ dyn.adaptive_multiplier = DEFAULT_ADAPTIVE_MULTIPLIER

\* the step is the host's next recorded call, and it is the call op
Called(op) ==
    /\ last_call'.seq = last_call.seq + 1
    /\ last_call'.op = op

C13_RetryAfterDecays ==
    [][ ( /\ config.strategy = ADAPTIVE
          /\ BodyRuns
          /\ IsSet(dyn.retry_after)
          /\ IsSet(dyn.retry_after_timestamp) ) =>
          LET n    == Cardinality(Inside(requests, clock, config.time_window))
              age  == clock - Val(dyn.retry_after_timestamp)
              left == Val(dyn.retry_after) * Sec - age
          IN  (n >= config.max_requests /\ n >= 1) =>
                  IF age < 60 * Sec
                  THEN left > 0 => Waited = left
                  ELSE ~IsSet(last_rate_limit_hit) =>
                          Waited = (n - config.max_requests)
                                      * dyn.adaptive_multiplier ]_vars

\* 59 seconds after retry-after: 61 arrived, an acquire sleeps the 2 seconds
\* that are left of it, where its excess times the multiplier is 1 second
C13_Witness ==
    /\ config.strategy = ADAPTIVE
    /\ dyn.retry_after = Some(61)
    /\ task["t1"].pc = "sleeping"
    /\ task["t1"].now - Val(dyn.retry_after_timestamp) = 59 * Sec
    /\ task["t1"].wait_time = 2 * Sec
    /\ (Len(requests) - config.max_requests) * dyn.adaptive_multiplier = Sec

(***************************************************************************)
(* C14.  Adaptive: update_from_error with an error whose headers hold     *)
(* retry-after: "2" increases rate_limit_hits by exactly 1, sets          *)
(* last_rate_limit_hit to the current time and records retry_after = 2    *)
(* with its timestamp; the get_stats that follows reports rate_limit_hits, *)
(* last_rate_limit_hit and dynamic adjustments with retry_after = 2.      *)
(***************************************************************************)
C14_ErrorIsRecordedAndReported ==
    [][ /\ ( /\ config.strategy = ADAPTIVE
             /\ Called("update_from_error")
             /\ last_call'.arg = RetryAfterError ) =>
                /\ rate_limit_hits' = rate_limit_hits + 1
                /\ last_rate_limit_hit' = Some(clock)
                /\ dyn'.retry_after = Some(2)
                /\ dyn'.retry_after_timestamp = Some(clock)
        /\ ( /\ config.strategy = ADAPTIVE
             /\ Called("get_stats")
             /\ last_call.op = "update_from_error"
             /\ last_call.arg = RetryAfterError ) =>
                /\ IsSet(stats')
                /\ Val(stats').rate_limit_hits = rate_limit_hits
                /\ rate_limit_hits >= 1
                /\ IsSet(Val(stats').last_rate_limit_hit)
                /\ Val(stats').last_rate_limit_hit = last_rate_limit_hit
                /\ IsSet(Val(stats').dynamic_adjustments)
                /\ Val(Val(stats').dynamic_adjustments).retry_after = 2
      ]_vars

\* get_stats has just answered after the first error with retry-after: "2"
C14_Witness ==
    /\ config.strategy = ADAPTIVE
    /\ last_call.op = "get_stats"
    /\ IsSet(stats)
    /\ Val(stats).rate_limit_hits = 1
    /\ IsSet(Val(stats).last_rate_limit_hit)
    /\ IsSet(Val(stats).dynamic_adjustments)
    /\ Val(Val(stats).dynamic_adjustments).retry_after = 2

(***************************************************************************)
(* C15.  On a Strict or Burst limiter update_from_response and            *)
(* update_from_error are no-ops: whatever headers they are given, they    *)
(* leave rate_limit_hits, last_rate_limit_hit, last_dynamic_update,       *)
(* max_requests, time_window and every feedback field unchanged.          *)
(***************************************************************************)
C15_FeedbackIgnoredUnlessAdaptive ==
    [][ ( /\ config.strategy \in {STRICT, BURST}
          /\ Called("update_from_response") \/ Called("update_from_error") )
          => UNCHANGED <<rate_limit_hits, last_rate_limit_hit,
                         last_dynamic_update, config, dyn, requests,
                         burst_requests, total_requests, total_wait_time,
                         max_wait_time>> ]_vars

\* a Burst limiter that has served requests was just given an error with
\* retry-after, after another feedback call
C15_Witness ==
    /\ config.strategy = BURST
    /\ last_call.op = "update_from_error"
    /\ last_call.arg = RetryAfterError
    /\ last_call.seq = 2
    /\ requests # <<>>
    /\ rate_limit_hits = 0
    /\ dyn = InitialAdjustments

\* the feedback fields that header data can set, and what they were set from
HeaderFields ==
    <<config.max_requests, config.time_window, dyn.retry_after,
      dyn.retry_after_timestamp, dyn.time_window, dyn.time_window_timestamp,
      dyn.max_requests, dyn.max_requests_timestamp, dyn.remaining,
      dyn.remaining_timestamp, last_dynamic_update>>

C18_GetStatsReadsOnly ==
    [][ Called("get_stats") =>
          /\ IsSet(stats')
          /\ UNCHANGED <<requests, burst_requests, total_requests,
                         total_wait_time, max_wait_time, rate_limit_hits,
                         last_rate_limit_hit, last_dynamic_update, config,
                         dyn, lock_holder, waiters, task, clock>> ]_vars

\* get_stats has just counted no recent request while the history still
\* holds an entry that has left the window
C18_Witness ==
    /\ last_call.op = "get_stats"
    /\ IsSet(stats)
    /\ Val(stats).current_queue_size = 1
    /\ Val(stats).current_rate[1] = 0
    /\ Len(requests) = 1
    /\ total_requests = 1

\* the limiter has received no feedback
NoFeedback ==
    /\ rate_limit_hits = 0
    /\ last_rate_limit_hit = None
    /\ last_dynamic_update = None
    /\ dyn = InitialAdjustments

(***************************************************************************)
(* C19.  Adaptive, no feedback received: once max_requests requests are   *)
(* recorded inside the current time_window, the next acquire is delayed   *)
(* by a positive wait and total_wait_time becomes > 0.                    *)
(***************************************************************************)
C19_AdaptiveDelaysAtLimit ==
    [][ ( /\ config.strategy = ADAPTIVE
          /\ BodyRuns
          /\ NoFeedback
          /\ Cardinality(Inside(requests, clock, config.time_window))
                 >= config.max_requests )
          => /\ Waited > 0
             /\ total_wait_time' > 0
             /\ \E t \in Tasks : StartsSleeping(t) ]_vars

(***************************************************************************)
(* C20.  Strict or Burst: whenever an acquire has had to wait because the *)
(* configured limit was reached, the statistics afterwards report         *)
(* rate_limit_hits >= 1 together with total_wait_time > 0 and             *)
(* max_wait_time > 0.                                                      *)
(***************************************************************************)
C20_WaitCountsAsHit ==
    ( /\ config.strategy \in {STRICT, BURST}
      /\ \E t \in Tasks : task[t].pc = "sleeping" /\ task[t].wait_time > 0 )
      => /\ GetStatsResult(clock).rate_limit_hits >= 1
         /\ GetStatsResult(clock).total_wait_time > 0
         /\ GetStatsResult(clock).max_wait_time > 0

(***************************************************************************)
(* C21.  The bodies of acquire, update_from_response and update_from_error *)
(* exclude one another: between the moment an acquire computes its wait    *)
(* and the moment it records its request (while it sleeps), no step        *)
(* changes time_window, max_requests, the feedback record or               *)
(* last_rate_limit_hit.                                                    *)
(***************************************************************************)
C21_NoFeedbackInsideAcquire ==
    [][ (\E t \in Tasks : task[t].pc = "sleeping")
          => UNCHANGED <<config, dyn, last_rate_limit_hit>> ]_vars

\* the wait an acquire entered now would compute from the feedback record d
\* on a limiter whose history holds the entries reqs
WaitWith(d, reqs) ==
    CalculateWaitTime(config', d, reqs, burst_requests', last_rate_limit_hit',
                      clock')

(***************************************************************************)
(* C22.  After reset_rate_limit_tracking returns on an Adaptive limiter,  *)
(* rate_limit_hits is 0, adaptive_multiplier is the default, and no        *)
(* retry_after directive learned before still lengthens the wait of a      *)
(* later acquire.                                                          *)
(***************************************************************************)
C22_ResetRestoresDefaults ==
    [][ (config.strategy = ADAPTIVE /\ Called("reset_rate_limit_tracking"))
          => /\ rate_limit_hits' = 0
             /\ dyn'.adaptive_multiplier = DEFAULT_ADAPTIVE_MULTIPLIER
             /\ \A reqs \in {requests', <<clock'>>} :
                    WaitWith(dyn', reqs)
                        = WaitWith([dyn' EXCEPT !.retry_after = None,
                                               !.retry_after_timestamp = None],
                                   reqs) ]_vars

\* the step ends the sleep of task t: the request is recorded (lines 90-92)
Woke(t) ==
    /\ task[t].pc = "sleeping"
    /\ total_requests' = total_requests + 1

(***************************************************************************)
(* C24.  When acquire has had to wait, the timestamp it appends to         *)
(* history (and to burst_history) is the time at which the wait is over    *)
(* and the caller is released, not the time at which acquire was entered.  *)
(***************************************************************************)
C24_RecordsReleaseTime ==
    [][ \A t \in Tasks : Woke(t) =>
          /\ requests'[Len(requests')] = clock
          /\ config.strategy = BURST =>
                 burst_requests'[Len(burst_requests')] = clock ]_vars

\* a history in non-decreasing timestamp order
Sorted(history) ==
    \A i, j \in DOMAIN history : i <= j => history[i] <= history[j]

\* every entry e of a history satisfies now - window < e <= now
Fresh(history, now, window) ==
    \A i \in DOMAIN history : now - window < history[i] /\ history[i] <= now

\* a history without its last entry
Front(history) == SubSeq(history, 1, Len(history) - 1)

(***************************************************************************)
(* C23.  Under any interleaving of acquire calls, history and             *)
(* burst_history are in non-decreasing timestamp order (history[0] is the *)
(* oldest entry); and right after each cleanup pass at the time now every *)
(* history entry e satisfies now - time_window < e <= now, every burst    *)
(* entry likewise with burst_window.  The cleanup passes are the one at   *)
(* the head of the body and the one after the sleep, which is followed by *)
(* the append of one entry.                                                *)
(***************************************************************************)
C23_HistoriesOrderedAndFresh ==
    /\ [](Sorted(requests) /\ Sorted(burst_requests))
    /\ [][ /\ BodyRuns =>
                /\ Fresh(requests', clock, config.time_window)
                /\ config.strategy = BURST =>
                       Fresh(burst_requests', clock, config.burst_window)
           /\ \A t \in Tasks : Woke(t) =>
                /\ Fresh(Front(requests'), clock, config.time_window)
                /\ config.strategy = BURST =>
                       Fresh(Front(burst_requests'), clock, config.burst_window)
       ]_vars

\* a caller that waited has been released and recorded, entries have aged
\* out of the history, and the history holds entries of different times
C23_Witness ==
    /\ total_wait_time > 0
    /\ \A t \in Tasks : task[t].pc = "idle"
    /\ total_requests > Len(requests)
    /\ Len(requests) >= 2
    /\ requests[1] < requests[Len(requests)]

(***************************************************************************)
(* C25.  Adaptive: the decision to wait is taken exactly when              *)
(* len(history) >= max_requests * threshold, where threshold is 0.9 if a   *)
(* rate-limit hit was recorded less than 60 seconds before now and 1.0     *)
(* otherwise, also when last_rate_limit_hit is unset.                      *)
(***************************************************************************)
C25_AdaptiveThreshold ==
    [][ (config.strategy = ADAPTIVE /\ Called("_should_wait")) =>
          LET recent == /\ IsSet(last_rate_limit_hit)
                        /\ clock - Val(last_rate_limit_hit) < 60 * Sec
              tenths == IF recent THEN 9 ELSE 10
          IN  Val(stats') = (10 * Len(requests) >= config.max_requests * tenths)
      ]_vars

\* the decision was to wait at nine requests of ten, a hit being 59.999...
\* seconds old
C25_Witness ==
    /\ config.strategy = ADAPTIVE
    /\ last_call.op = "_should_wait"
    /\ stats = Some(TRUE)
    /\ config.max_requests = 10
    /\ Len(requests) = 9
    /\ IsSet(last_rate_limit_hit)
    /\ clock - Val(last_rate_limit_hit) = 60 * Sec - 1

\* the history the body of the step worked on: what its cleanup left
Cleaned ==
    IF total_requests' = total_requests THEN requests' ELSE Front(requests')

\* the body of the step found a retry_after directive that sets its wait
RetryAfterValid ==
    /\ IsSet(dyn.retry_after)
    /\ IsSet(dyn.retry_after_timestamp)
    /\ clock - Val(dyn.retry_after_timestamp) < 60 * Sec
    /\ Val(dyn.retry_after) * Sec - (clock - Val(dyn.retry_after_timestamp)) > 0

\* the body of the step is under limit pressure: the wait is computed
WaitComputed ==
    10 * Len(Cleaned) >=
        config.max_requests
            * (IF /\ IsSet(last_rate_limit_hit')
                  /\ clock - Val(last_rate_limit_hit') < 60 * Sec
               THEN 9 ELSE 10)

\* a hit was recorded in the 120 seconds before the body of the step
HitRecent ==
    /\ IsSet(last_rate_limit_hit')
    /\ clock - Val(last_rate_limit_hit') < 120 * Sec

(***************************************************************************)
(* C26.  Adaptive, no valid retry_after directive: the wait acquire        *)
(* computes is max(min_wait, excess * adaptive_multiplier), with           *)
(* excess = len(history) - max_requests and                                *)
(* min_wait = max(0, 1 - (now - last_rate_limit_hit) / 120) when a hit     *)
(* occurred in the last 120 seconds and 0 otherwise; it is never negative  *)
(* and it is 0 when the history is at or below max_requests and no hit is  *)
(* recent.                                                                 *)
(***************************************************************************)
C26_AdaptiveWaitFormula ==
    [][ ( /\ config.strategy = ADAPTIVE
          /\ BodyRuns
          /\ WaitComputed
          /\ ~RetryAfterValid ) =>
          LET excess   == Len(Cleaned) - config.max_requests
              min_wait == IF HitRecent
                          THEN Max(0, Sec - (clock - Val(last_rate_limit_hit'))
                                               \div 120)
                          ELSE 0
          IN  /\ Waited = Max(min_wait, excess * dyn'.adaptive_multiplier)
              /\ Waited >= 0
              /\ (excess <= 0 /\ ~HitRecent) => Waited = 0 ]_vars

\* the step is an update_from_response call on an Adaptive limiter whose
\* headers hold a reset value
ResetIngested ==
    /\ config.strategy = ADAPTIVE
    /\ Called("update_from_response")
    /\ "x-ratelimit-reset" \in DOMAIN last_call'.arg

\* the reset time the claim derives from the reset value of that call
ResetTime ==
    LET v == Val(FirstDigits(last_call'.arg["x-ratelimit-reset"])) * Sec
    IN  IF v > clock + 3600 * Sec THEN v ELSE clock + v

(***************************************************************************)
(* C27.  A reset header with the numeric value v, processed at the time   *)
(* now: the reset time is v if v > now + 3600 and now + v otherwise, and  *)
(* time_window is set to reset - now and recorded with its timestamp when *)
(* reset - now > 0; when it is 0 (v = 0), time_window and its record stay *)
(* as they were.                                                           *)
(***************************************************************************)
C27_ResetSetsPositiveWindow ==
    [][ ResetIngested =>
          IF ResetTime - clock > 0
          THEN /\ config'.time_window = ResetTime - clock
               /\ dyn'.time_window = Some(ResetTime - clock)
               /\ dyn'.time_window_timestamp = Some(clock)
          ELSE /\ config'.time_window = config.time_window
               /\ dyn'.time_window = dyn.time_window
               /\ dyn'.time_window_timestamp = dyn.time_window_timestamp
      ]_vars

\* C27 as stated: time_window is set to max(0, reset - now) and recorded
\* with its timestamp for every v, v = 0 included
C27_ResetSetsWindow ==
    [][ ResetIngested =>
          /\ config'.time_window = Max(0, ResetTime - clock)
          /\ dyn'.time_window = Some(Max(0, ResetTime - clock))
          /\ dyn'.time_window_timestamp = Some(clock)
      ]_vars

\* the reset value 4601, read a second after t = 1000 as seconds from now,
\* has been ingested after an earlier feedback call
C27_Witness ==
    /\ last_call.op = "update_from_response"
    /\ last_call.seq = 2
    /\ "x-ratelimit-reset" \in DOMAIN last_call.arg
    /\ clock = (Epoch0 + 1) * Sec
    /\ config.time_window = 4601 * Sec
    /\ dyn.time_window_timestamp = Some(clock)

(***************************************************************************)
(* C28.  config.max_requests is an integer > 0 in every reachable state,  *)
(* after any sequence of update_from_response and update_from_error calls *)
(* with arbitrary header values, a limit header of 0 included.             *)
(***************************************************************************)
C28_MaxRequestsPositive == config.max_requests > 0

(***************************************************************************)
(* C29.  config.time_window is > 0 in every reachable state, after any    *)
(* sequence of update_from_response and update_from_error calls with      *)
(* arbitrary reset values, so the division by time_window / 60 in         *)
(* get_stats is never a division by zero, in the statistics a call has    *)
(* returned and in those a call would return now.                         *)
(***************************************************************************)
C29_TimeWindowPositive ==
    /\ config.time_window > 0
    /\ GetStatsResult(clock).current_rate[2] # 0
    /\ IsSet(stats) => Val(stats).current_rate[2] # 0

\* get_stats has returned the rate over a window learned from a reset header,
\* with a request recorded
C29_Witness ==
    /\ last_call.op = "get_stats"
    /\ IsSet(stats)
    /\ IsSet(dyn.time_window)
    /\ Val(stats).current_rate[2] = Val(dyn.time_window)
    /\ Val(stats).current_rate[1] > 0

\* the feedback fields of dynamic_adjustments, each with its timestamp
FeedbackFields ==
    { <<"retry_after", "retry_after_timestamp">>,
      <<"time_window", "time_window_timestamp">>,
      <<"max_requests", "max_requests_timestamp">>,
      <<"remaining", "remaining_timestamp">> }

\* the step left the field f or its timestamp with another value
Changed(f) == dyn'[f[1]] # dyn[f[1]] \/ dyn'[f[2]] # dyn[f[2]]

\* after the step the field f carries the timestamp now
StampedNow(f) == dyn'[f[2]] = Some(clock)

(***************************************************************************)
(* C30.  A header-processing call sets last_dynamic_update to now if and  *)
(* only if it updated at least one feedback field (retry_after,           *)
(* time_window, max_requests or remaining): a call that changes a field   *)
(* sets it to now, it is set only to now and only by a call that leaves a *)
(* field stamped with now, and a call that stamps no field leaves it      *)
(* unchanged.                                                              *)
(***************************************************************************)
C30_UpdateStampedIffFieldUpdated ==
    [][ ( /\ config.strategy = ADAPTIVE
          /\ Called("update_from_response") \/ Called("update_from_error") ) =>
          /\ (\E f \in FeedbackFields : Changed(f))
                 => last_dynamic_update' = Some(clock)
          /\ last_dynamic_update' # last_dynamic_update
                 => /\ last_dynamic_update' = Some(clock)
                    /\ \E f \in FeedbackFields : StampedNow(f)
          /\ (\A f \in FeedbackFields : ~StampedNow(f))
                 => last_dynamic_update' = last_dynamic_update
      ]_vars

\* after an update a second earlier, a call whose reset value 0 updates no
\* field has left last_dynamic_update at the time of the earlier update
C30_Witness ==
    /\ last_call.op = "update_from_response"
    /\ last_call.seq = 2
    /\ last_call.arg = [n \in {"x-ratelimit-reset"} |-> <<"0">>]
    /\ IsSet(last_dynamic_update)
    /\ Val(last_dynamic_update) = clock - Sec

(***************************************************************************)
(* C31.  In every reachable state each feedback override is set if and    *)
(* only if its companion timestamp is set (retry_after, the time_window   *)
(* override, the max_requests override, remaining), and each timestamp    *)
(* that is set is no later than last_dynamic_update.                      *)
(***************************************************************************)
C31_OverridesCarryTimestamps ==
    \A f \in FeedbackFields :
        /\ IsSet(dyn[f[1]]) <=> IsSet(dyn[f[2]])
        /\ IsSet(dyn[f[2]]) =>
               /\ IsSet(last_dynamic_update)
               /\ Val(dyn[f[2]]) <= Val(last_dynamic_update)

\* remaining and the window were learned from one response, retry_after
\* from a later one: two of the timestamps differ
C31_Witness ==
    /\ IsSet(dyn.remaining)
    /\ IsSet(dyn.time_window)
    /\ IsSet(dyn.retry_after)
    /\ ~IsSet(dyn.max_requests)
    /\ Val(dyn.remaining_timestamp) < Val(dyn.retry_after_timestamp)
    /\ last_dynamic_update = dyn.retry_after_timestamp

(***************************************************************************)
(* C32.  Burst: burst_size >= max_requests holds from construction on in  *)
(* every reachable state; construction sets burst_size to                 *)
(* 2 * max_requests only when burst_size was not supplied and             *)
(* burst_window to 10 only when burst_window was not supplied, raises a   *)
(* supplied burst_size below max_requests to max_requests and keeps a     *)
(* supplied burst_size >= max_requests as given.                          *)
(***************************************************************************)
C32_BurstSizeFloored ==
    /\ []( (Constructed /\ config.strategy = BURST)
               => config.burst_size >= config.max_requests )
    /\ [][ (Called("__init__") /\ config.strategy = BURST) =>
             LET supplied == last_call'.arg
             IN  /\ config'.burst_size =
                        IF supplied.burst_size = 0
                        THEN 2 * supplied.max_requests
                        ELSE Max(supplied.burst_size, supplied.max_requests)
                 /\ config'.burst_window =
                        IF supplied.burst_window = 0
                        THEN 10 * Sec
                        ELSE supplied.burst_window
       ]_vars

\* the task t is still waiting: its sleep is not over
StillWaiting(t) ==
    /\ task[t].pc = "sleeping"
    /\ clock < task[t].now + task[t].wait_time

\* an acquire body run now would return at once: nothing to wait for
NoWaitNow ==
    LET reqs  == CleanupRequests(config, requests, clock)
        burst == CleanupBurst(config, burst_requests, clock)
        hit   == ExpireHit(last_rate_limit_hit, clock)
        d     == ExpireMultiplier(config, dyn, last_rate_limit_hit, clock)
    IN  \/ ~ShouldWait(config, reqs, burst, hit, clock)
        \/ CalculateWaitTime(config, d, reqs, burst, hit, clock) = 0

(***************************************************************************)
(* C33.  No strict FIFO among the tasks blocked in acquire: a task that   *)
(* called acquire later and has nothing (left) to wait for can complete   *)
(* before a task that called earlier and is still waiting; so no task     *)
(* with nothing to wait for is held back, queued, behind a task that is   *)
(* still waiting.                                                          *)
(***************************************************************************)
C33_LaterCallerNotHeldBack ==
    \A t, u \in Tasks :
        ~( /\ StillWaiting(t)
           /\ task[u].pc \in {"queued", "granted"}
           /\ NoWaitNow )

\* an acquire call returns in the step
Returned == Len(released') = Len(released) + 1

\* after is what a cleanup left of before, with exactly one entry appended
OneAppended(before, after) ==
    /\ after # <<>>
    /\ \E k \in 1..(Len(before) + 1) :
           Front(after) = SubSeq(before, k, Len(before))

\* the step neither loses an acquire call's record nor adds one without a
\* return, and the wait counters are consistent
CountsReturns ==
    /\ Returned =>
           /\ total_requests' = total_requests + 1
           /\ OneAppended(requests, requests')
           /\ config.strategy = BURST =>
                  OneAppended(burst_requests, burst_requests')
    /\ ~Returned => total_requests' = total_requests

(***************************************************************************)
(* C34.  Every completed acquire appends exactly one timestamp to history *)
(* (and exactly one to burst_history under Burst) and increments          *)
(* total_requests by exactly 1, so total_requests always equals the       *)
(* number of acquire calls that have returned; total_wait_time is the sum *)
(* of the waits computed so far, each added when its call computes it and *)
(* before the call sleeps (the waits of the calls that returned, of those *)
(* cancelled and of those still sleeping); max_wait_time <=               *)
(* total_wait_time.                                                        *)
(***************************************************************************)
C34_WaitsCountedWhenComputed ==
    /\ [](total_requests = Len(released) /\ max_wait_time <= total_wait_time)
    /\ [][ /\ CountsReturns
           /\ Waited = IF \E t \in Tasks : StartsSleeping(t)
                       THEN task'[CHOOSE t \in Tasks : StartsSleeping(t)].wait_time
                       ELSE 0
       ]_vars

\* C34 as stated: total_wait_time is the sum of the waits of the calls that
\* have returned and of the cancelled calls, so it grows by a call's wait
\* when that call returns or is cancelled and not otherwise
C34_WaitsCountedAtReturn ==
    /\ [](total_requests = Len(released) /\ max_wait_time <= total_wait_time)
    /\ [][ /\ CountsReturns
           /\ Waited = IF \E t \in Tasks : Woke(t) \/ CancelledWaiting(t)
                       THEN task[CHOOSE t \in Tasks :
                                     Woke(t) \/ CancelledWaiting(t)].wait_time
                       ELSE 0
       ]_vars

\* calls have returned, one was cancelled in its wait, and another is asleep
\* now: its wait is counted already
C34_Witness ==
    /\ \E t \in Tasks : task[t].pc = "sleeping"
    /\ Len(released) >= 2
    /\ entered = Len(released) + 2
    /\ total_wait_time > max_wait_time
    /\ Len(requests) >= 1

(***************************************************************************)
(* C35.  Window occupancy is bounded after every acquire that returns:    *)
(* len(history) <= max_requests on a Strict limiter and                   *)
(* len(burst_history) <= burst_size on a Burst limiter, for any           *)
(* cooldown_period, also one shorter than burst_window.                   *)
(***************************************************************************)
C35_OccupancyBounded ==
    [][ Returned =>
          /\ config.strategy = STRICT =>
                 Len(requests') <= config.max_requests
          /\ config.strategy = BURST =>
                 Len(burst_requests') <= config.burst_size ]_vars

====
